---- MODULE Spec2Model ----
(***************************************************************************)
(* DHARMA FIR extractor (src/DHARMA2/app.py).                              *)
(*                                                                         *)
(* Texts are strings; every extractor works on the characters of the text *)
(* (SubSeq(t, i, i) is the i-th character), so a keyword test is a         *)
(* substring search and a regular expression is matched position by        *)
(* position with the greedy / lazy choices of Python's re module.          *)
(*                                                                         *)
(* Two characters of the source are written in ASCII here: the rupee sign  *)
(* U+20B9 is RUPEE and the en dash U+2013 of the citations is "-".         *)
(***************************************************************************)
EXTENDS Integers, Sequences, FiniteSets, TLC

VARIABLES
    arg,        \* the argument of the pure function under check
    ret,        \* its return value
    called,     \* TRUE once the function was applied to arg
    widget,     \* per session: the text in the input widget (local fir_text)
    fir_text,   \* per session: st.session_state.fir_text
    result,     \* per session: st.session_state.result
    pc,         \* per session: position of the script run in the handler
    save_data,  \* per session: the argument data of save_extracted_data
    all_data,   \* per session: local all_data of save_extracted_data
    message,    \* per session: the st.warning / st.success box of the last run
    file,       \* extracted_fir_data.json
    log         \* history: the calls of extract_all by the handler, in order

vars == <<arg, ret, called, widget, fir_text, result, pc, save_data, all_data, message, file, log>>

pureVars == <<arg, ret, called>>
uiVars == <<widget, fir_text, result, pc, save_data, all_data, message, file, log>>

-----------------------------------------------------------------------------
(* Characters and strings                                                  *)

UpperStr == "ABCDEFGHIJKLMNOPQRSTUVWXYZ"
LowerStr == "abcdefghijklmnopqrstuvwxyz"
DigitStr == "0123456789"
RUPEE == "$"

Ch(t, i) == SubSeq(t, i, i)

Upper == {Ch(UpperStr, i) : i \in 1..26}
Lowers == {Ch(LowerStr, i) : i \in 1..26}
Alpha == Upper \cup Lowers
Digit == {Ch(DigitStr, i) : i \in 1..10}
Space == {" ", "\n", "\t"}
Word == Alpha \cup Digit \cup {"_"}
AlphaSpace == Alpha \cup Space
AlphaSpaceComma == AlphaSpace \cup {","}
ColonSpace == Space \cup {":"}

Min(S) == CHOOSE x \in S : \A y \in S : x <= y
Max(S) == CHOOSE x \in S : \A y \in S : x >= y

LowerOf == [c \in Upper |-> Ch(LowerStr, CHOOSE i \in 1..26 : Ch(UpperStr, i) = c)]
DigitVal == [c \in Digit |-> (CHOOSE i \in 1..10 : Ch(DigitStr, i) = c) - 1]

\* str.lower()
RECURSIVE lower(_)
lower(t) ==
    IF t = "" THEN ""
    ELSE LET c == Ch(t, 1)
         IN (IF c \in Upper THEN LowerOf[c] ELSE c) \o lower(SubSeq(t, 2, Len(t)))

\* text[i : i + len(lit)] == lit
At(t, i, lit) ==
    /\ i >= 1
    /\ i + Len(lit) - 1 <= Len(t)
    /\ SubSeq(t, i, i + Len(lit) - 1) = lit

\* lit in text
Contains(t, lit) == \E i \in 1..(Len(t) - Len(lit) + 1) : At(t, i, lit)

\* the end (exclusive) of the longest run of characters of cls that starts at i
RECURSIVE RunEnd(_, _, _)
RunEnd(t, i, cls) ==
    IF i > Len(t) \/ Ch(t, i) \notin cls THEN i ELSE RunEnd(t, i + 1, cls)

\* str.strip()
RECURSIVE lstrip(_)
lstrip(s) == IF s # "" /\ Ch(s, 1) \in Space THEN lstrip(SubSeq(s, 2, Len(s))) ELSE s
RECURSIVE rstrip(_)
rstrip(s) == IF s # "" /\ Ch(s, Len(s)) \in Space THEN rstrip(SubSeq(s, 1, Len(s) - 1)) ELSE s
strip(s) == rstrip(lstrip(s))

\* int(s) for a string of decimal digits
RECURSIVE int(_)
int(s) ==
    IF s = "" THEN 0
    ELSE 10 * int(SubSeq(s, 1, Len(s) - 1)) + DigitVal[Ch(s, Len(s))]

\* " ".join(xs)
RECURSIVE join(_)
join(xs) ==
    IF xs = <<>> THEN ""
    ELSE IF Len(xs) = 1 THEN xs[1]
    ELSE xs[1] \o " " \o join(Tail(xs))

\* x in xs  (list membership)
InList(x, xs) == \E i \in 1..Len(xs) : xs[i] = x

-----------------------------------------------------------------------------
(* Regular-expression matches.  A match object is [ok, s, e, g]: ok is     *)
(* FALSE for None, s..e-1 is the matched span, g the tuple of groups.      *)

None == [ok |-> FALSE, s |-> 0, e |-> 0, g |-> <<>>]
Match(s, e, g) == [ok |-> TRUE, s |-> s, e |-> e, g |-> g]

\* m.group(k); on None Python raises AttributeError
AttributeError == "<AttributeError>"
group(m, k) == IF m.ok THEN m.g[k] ELSE AttributeError

\* re.search: the match at the leftmost position where the pattern matches;
\* ms[i] is the match of the pattern tried at position i
search(ms) ==
    LET hits == {i \in DOMAIN ms : ms[i].ok}
    IN IF hits = {} THEN None ELSE ms[Min(hits)]

\* complainant\s+([A-Z][a-zA-Z\s]+)   (re.I)
name_at(t, lt, i) ==
    LET p == i + Len("complainant")
        q == RunEnd(t, p, Space)
        e == RunEnd(t, q + 1, AlphaSpace)
    IN IF /\ At(lt, i, "complainant")
          /\ q > p
          /\ q <= Len(t) /\ Ch(t, q) \in Alpha
          /\ e > q + 1
       THEN Match(i, e, <<SubSeq(t, q, e - 1)>>)
       ELSE None

\* S/o\s+([A-Z][a-zA-Z\s]+)   (re.I)
father_at(t, lt, i) ==
    LET p == i + Len("s/o")
        q == RunEnd(t, p, Space)
        e == RunEnd(t, q + 1, AlphaSpace)
    IN IF /\ At(lt, i, "s/o")
          /\ q > p
          /\ q <= Len(t) /\ Ch(t, q) \in Alpha
          /\ e > q + 1
       THEN Match(i, e, <<SubSeq(t, q, e - 1)>>)
       ELSE None

\* aged\s+(\d+)   (re.I)
age_at(t, lt, i) ==
    LET p == i + Len("aged")
        q == RunEnd(t, p, Space)
        e == RunEnd(t, q, Digit)
    IN IF At(lt, i, "aged") /\ q > p /\ e > q
       THEN Match(i, e, <<SubSeq(t, q, e - 1)>>)
       ELSE None

\* word1\s+word2 at i, the end of the match or 0
TwoWordsEnd(lt, i, w1, w2) ==
    LET p == i + Len(w1)
        q == RunEnd(lt, p, Space)
    IN IF At(lt, i, w1) /\ q > p /\ At(lt, q, w2) THEN q + Len(w2) ELSE 0

\* (Scheduled\s+Caste|Scheduled\s+Tribe|Backward\s+Class)   (re.I)
caste_at(t, lt, i) ==
    LET e1 == TwoWordsEnd(lt, i, "scheduled", "caste")
        e2 == TwoWordsEnd(lt, i, "scheduled", "tribe")
        e3 == TwoWordsEnd(lt, i, "backward", "class")
        e == IF e1 > 0 THEN e1 ELSE IF e2 > 0 THEN e2 ELSE e3
    IN IF e > 0 THEN Match(i, e, <<SubSeq(t, i, e - 1)>>) ELSE None

\* occupation[:\s]*([A-Za-z\s]+)   (re.I)
\* [:\s]* is greedy and gives characters back until the group can start
occ_at(t, lt, i) ==
    LET p == i + Len("occupation")
        c == RunEnd(t, p, ColonSpace)
        starts == {k \in p..c : k <= Len(t) /\ Ch(t, k) \in AlphaSpace}
        k == Max(starts)
        e == RunEnd(t, k, AlphaSpace)
    IN IF At(lt, i, "occupation") /\ starts # {}
       THEN Match(i, e, <<SubSeq(t, k, e - 1)>>)
       ELSE None

\* resident\s+of\s+([A-Za-z\s,]+)   (re.I)
\* the second \s+ is greedy and gives one space back when nothing of the
\* class follows the spaces
addr_at(t, lt, i) ==
    LET p == i + Len("resident")
        q == RunEnd(t, p, Space)
        p2 == q + Len("of")
        w == RunEnd(t, p2, Space)
        e == RunEnd(t, w, AlphaSpaceComma)
    IN IF At(lt, i, "resident") /\ q > p /\ At(lt, q, "of") /\ w > p2
       THEN IF e > w THEN Match(i, e, <<SubSeq(t, w, e - 1)>>)
            ELSE IF w - p2 >= 2 THEN Match(i, w, <<SubSeq(t, w - 1, w - 1)>>)
            ELSE None
       ELSE None

name_match(t) == LET lt == lower(t) IN search([i \in 1..Len(t) |-> name_at(t, lt, i)])
father_match(t) == LET lt == lower(t) IN search([i \in 1..Len(t) |-> father_at(t, lt, i)])
age_match(t) == LET lt == lower(t) IN search([i \in 1..Len(t) |-> age_at(t, lt, i)])
caste_match(t) == LET lt == lower(t) IN search([i \in 1..Len(t) |-> caste_at(t, lt, i)])
occ_match(t) == LET lt == lower(t) IN search([i \in 1..Len(t) |-> occ_at(t, lt, i)])
addr_match(t) == LET lt == lower(t) IN search([i \in 1..Len(t) |-> addr_at(t, lt, i)])

\* info[key] = value when the match is not None
Put(info, m, key, value) == IF m.ok THEN (key :> value) @@ info ELSE info

extract_complainant_info(text) ==
    LET i0 == <<>>
        i1 == Put(i0, name_match(text), "Name", strip(group(name_match(text), 1)))
        i2 == Put(i1, father_match(text), "Father", strip(group(father_match(text), 1)))
        i3 == Put(i2, age_match(text), "Age", int(group(age_match(text), 1)))
        i4 == Put(i3, caste_match(text), "Community", strip(group(caste_match(text), 1)))
        i5 == Put(i4, occ_match(text), "Occupation", strip(group(occ_match(text), 1)))
        i6 == Put(i5, addr_match(text), "Address", strip(group(addr_match(text), 1)))
    IN i6

-----------------------------------------------------------------------------
(* re.findall: the matches found scanning left to right, each search       *)
(* starting where the previous match ended                                 *)

RECURSIVE Scan(_, _, _)
Scan(hits, ends, from) ==
    LET rest == {i \in hits : i >= from}
    IN IF rest = {} THEN <<>>
       ELSE LET i == Min(rest) IN <<i>> \o Scan(hits, ends, ends[i])

findall(ms) ==
    LET hits == {i \in DOMAIN ms : ms[i].ok}
        ends == [i \in hits |-> ms[i].e]
        starts == Scan(hits, ends, 1)
    IN [k \in 1..Len(starts) |-> ms[starts[k]].g]

\* (?:cue\s*([A-Za-z\s]+))? at p: <<end, group>>; the group is "" and the end
\* is p when the optional part does not match.  \s* is greedy and gives one
\* space back when no letter follows the spaces.
OptCue(t, lt, p, cueEnd) ==
    LET w == RunEnd(t, cueEnd, Space)
        e == RunEnd(t, w, AlphaSpace)
    IN IF cueEnd = 0 THEN <<p, "">>
       ELSE IF e > w THEN <<e, SubSeq(t, w, e - 1)>>
       ELSE IF w > cueEnd THEN <<w, SubSeq(t, w - 1, w - 1)>>
       ELSE <<p, "">>

\* resident\s*of at p: the end of the cue or 0
ResidentOfEnd(t, lt, p) ==
    LET q == RunEnd(t, p + Len("resident"), Space)
    IN IF At(lt, p, "resident") /\ At(lt, q, "of") THEN q + Len("of") ELSE 0

\* ([A-Z][a-zA-Z\s]+),\s*aged\s*about\s*(\d+).*?(?:S/o\s*([A-Za-z\s]+))?.*?
\* (?:resident\s*of\s*([A-Za-z\s]+))?.*?(?:history-sheeter)?   (re.I)
\* Every part after (\d+) may match the empty string, so each lazy .*? stays
\* empty and an optional part is taken only where it starts right there.
accused_at(t, lt, i) ==
    LET e1 == RunEnd(t, i + 1, AlphaSpace)
        a == RunEnd(t, e1 + 1, Space)
        b == RunEnd(t, a + Len("aged"), Space)
        c == RunEnd(t, b + Len("about"), Space)
        d == RunEnd(t, c, Digit)
        rel == OptCue(t, lt, d, IF At(lt, d, "s/o") THEN d + Len("s/o") ELSE 0)
        adr == OptCue(t, lt, rel[1], ResidentOfEnd(t, lt, rel[1]))
        h == IF At(lt, adr[1], "history-sheeter")
             THEN adr[1] + Len("history-sheeter") ELSE adr[1]
    IN IF /\ Ch(t, i) \in Alpha
          /\ e1 > i + 1
          /\ At(t, e1, ",")
          /\ At(lt, a, "aged")
          /\ At(lt, b, "about")
          /\ d > c
       THEN Match(i, h, <<SubSeq(t, i, e1 - 1), SubSeq(t, c, d - 1), rel[2], adr[2]>>)
       ELSE None

DescriptionCues == <<"medium build", "black shirt", "fair", "dark">>

\* the cue of the alternation that matches at k, or 0
CueAt(lt, k) ==
    LET m == {n \in 1..Len(DescriptionCues) : At(lt, k, DescriptionCues[n])}
    IN IF m = {} THEN 0 ELSE Min(m)

\* unknown person.*?(medium build|black shirt|fair|dark)   (re.I)
\* . does not match a newline; the lazy .*? stops at the first cue
unknown_at(t, lt, i) ==
    LET p == i + Len("unknown person")
        nl == RunEnd(t, p, {Ch(t, j) : j \in 1..Len(t)} \ {"\n"})
        ks == {k \in p..nl : CueAt(lt, k) > 0}
        k == Min(ks)
        e == k + Len(DescriptionCues[CueAt(lt, k)])
    IN IF At(lt, i, "unknown person") /\ ks # {}
       THEN Match(i, e, <<SubSeq(t, k, e - 1)>>)
       ELSE None

unknown_match(t) == LET lt == lower(t) IN search([i \in 1..Len(t) |-> unknown_at(t, lt, i)])

\* the dict built for one tuple of accused_block
AccusedEntry(m) ==
    LET acc == [Name |-> strip(m[1]), Age |-> int(m[2])]
        acc1 == IF m[3] # "" THEN ("Relation" :> ("S/o " \o strip(m[3]))) @@ acc ELSE acc
        acc2 == IF m[4] # "" THEN ("Address" :> strip(m[4])) @@ acc1 ELSE acc1
    IN acc2

extract_accused_info(text) ==
    LET lt == lower(text)
        accused_block == findall([i \in 1..Len(text) |-> accused_at(text, lt, i)])
        accused_list == [k \in 1..Len(accused_block) |-> AccusedEntry(accused_block[k])]
        desc == IF unknown_match(text).ok THEN group(unknown_match(text), 1)
                ELSE "Unknown description"
    IN IF Contains(lt, "unknown")
       THEN Append(accused_list, [Name |-> "Unknown", Description |-> desc])
       ELSE accused_list

-----------------------------------------------------------------------------
(* The other field extractors                                              *)

\* the characters i .. i+n-1 exist and all belong to cls
AllIn(t, i, n, cls) == i + n - 1 <= Len(t) /\ \A j \in i..(i + n - 1) : Ch(t, j) \in cls

\* (AP-\d{2}-[A-Z]{2}-\d{4})   (case-sensitive)
vehicle_at(t, i) ==
    IF /\ At(t, i, "AP-")
       /\ AllIn(t, i + 3, 2, Digit)
       /\ At(t, i + 5, "-")
       /\ AllIn(t, i + 6, 2, Upper)
       /\ At(t, i + 8, "-")
       /\ AllIn(t, i + 9, 4, Digit)
    THEN Match(i, i + 13, <<SubSeq(t, i, i + 12)>>)
    ELSE None

extract_vehicles(text) ==
    LET found == findall([i \in 1..Len(text) |-> vehicle_at(text, i)])
    IN [k \in 1..Len(found) |-> found[k][1]]

\* faulty variant: the keyword test without .lower()
extract_weapons_case_sensitive(text) ==
    (IF Contains(text, "pistol") THEN <<"Country-made pistol">> ELSE <<>>)
    \o (IF Contains(text, "stick") THEN <<"Stick">> ELSE <<>>)

extract_weapons(text) ==
    (IF Contains(lower(text), "pistol") THEN <<"Country-made pistol">> ELSE <<>>)
    \o (IF Contains(lower(text), "stick") THEN <<"Stick">> ELSE <<>>)

\* faulty variant: the keyword tests without .lower()
extract_offences_case_sensitive(text) ==
    (IF Contains(text, "caste") \/ Contains(text, "mala")
     THEN <<"Caste abuse">> ELSE <<>>)
    \o (IF Contains(text, "pistol") \/ Contains(text, "fire")
        THEN <<"Threat with firearm">> ELSE <<>>)
    \o (IF Contains(text, "snatched") \/ Contains(text, "cash")
        THEN <<"Robbery">> ELSE <<>>)
    \o (IF Contains(text, "injury") \/ Contains(text, "bleeding")
        THEN <<"Assault causing injury">> ELSE <<>>)

extract_offences(text) ==
    (IF Contains(lower(text), "caste") \/ Contains(lower(text), "mala")
     THEN <<"Caste abuse">> ELSE <<>>)
    \o (IF Contains(lower(text), "pistol") \/ Contains(lower(text), "fire")
        THEN <<"Threat with firearm">> ELSE <<>>)
    \o (IF Contains(lower(text), "snatched") \/ Contains(lower(text), "cash")
        THEN <<"Robbery">> ELSE <<>>)
    \o (IF Contains(lower(text), "injury") \/ Contains(lower(text), "bleeding")
        THEN <<"Assault causing injury">> ELSE <<>>)

\* \b at i: exactly one of the characters before and at i is a word character
Boundary(t, i) ==
    (i > 1 /\ Ch(t, i - 1) \in Word) # (i <= Len(t) /\ Ch(t, i) \in Word)

\* (Samsung.*?RUPEE\d+|\bcash\s*RUPEE?\d+)   (re.I)
property_at(t, lt, i) ==
    LET p == i + Len("samsung")
        nl == RunEnd(t, p, {Ch(t, j) : j \in 1..Len(t)} \ {"\n"})
        ks == {k \in p..nl : At(t, k, RUPEE) /\ AllIn(t, k + 1, 1, Digit)}
        e1 == RunEnd(t, Min(ks) + 1, Digit)
        w == RunEnd(t, i + Len("cash"), Space)
        w2 == IF At(t, w, RUPEE) THEN w + 1 ELSE w
        e2 == RunEnd(t, w2, Digit)
    IN IF At(lt, i, "samsung") /\ ks # {}
       THEN Match(i, e1, <<SubSeq(t, i, e1 - 1)>>)
       ELSE IF Boundary(t, i) /\ At(lt, i, "cash") /\ e2 > w2
       THEN Match(i, e2, <<SubSeq(t, i, e2 - 1)>>)
       ELSE None

extract_property_loss(text) ==
    LET lt == lower(text)
        found == findall([i \in 1..Len(text) |-> property_at(text, lt, i)])
    IN [k \in 1..Len(found) |-> found[k][1]]

\* faulty variant: threats is a module-level list that keeps the entries of earlier calls
extract_threats_shared_list(text) ==
    (IF log # <<>> THEN log[Len(log)].rec.Threats ELSE <<>>)
    \o (IF Contains(lower(text), "kill") THEN <<"Kill him">> ELSE <<>>)
    \o (IF Contains(lower(text), "fire") \/ Contains(lower(text), "burn")
        THEN <<"Set fire to his hut">> ELSE <<>>)

extract_threats(text) ==
    (IF Contains(lower(text), "kill") THEN <<"Kill him">> ELSE <<>>)
    \o (IF Contains(lower(text), "fire") \/ Contains(lower(text), "burn")
        THEN <<"Set fire to his hut">> ELSE <<>>)

\* \b([A-Z][a-z]+)\b(?=,|\s+and)   (case-sensitive)
witness_at(t, i) ==
    LET e == RunEnd(t, i + 1, Lowers)
        w == RunEnd(t, e, Space)
    IN IF /\ Boundary(t, i)
          /\ Ch(t, i) \in Upper
          /\ e > i + 1
          /\ Boundary(t, e)
          /\ (At(t, e, ",") \/ (w > e /\ At(t, w, "and")))
       THEN Match(i, e, <<SubSeq(t, i, e - 1)>>)
       ELSE None

WitnessStoplist == <<"Rajesh", "Rao", "Babu", "Krishna">>

extract_witnesses(text) ==
    LET found == findall([i \in 1..Len(text) |-> witness_at(text, i)])
        w == [k \in 1..Len(found) |-> found[k][1]]
        keep(x) == ~InList(x, WitnessStoplist)
    IN SelectSeq(w, keep)

\* (\d{1,2}[:.]\d+\s*[AP]M) at k: the end of the match or 0
TimeEnd(t, lt, k) ==
    LET h == IF AllIn(t, k, 2, Digit) THEN k + 2 ELSE k + 1
        m == RunEnd(t, h + 1, Digit)
        s == RunEnd(t, m, Space)
    IN IF /\ AllIn(t, k, 1, Digit)
          /\ (At(t, h, ":") \/ At(t, h, "."))
          /\ m > h + 1
          /\ (At(lt, s, "am") \/ At(lt, s, "pm"))
       THEN s + 2 ELSE 0

\* (\d{1,2}(?:th|st|nd|rd)?\s+\w+\s+\d{4}).*?(\d{1,2}[:.]\d+\s*[AP]M)   (re.I)
datetime_at(t, lt, i) ==
    LET a == IF AllIn(t, i, 2, Digit) THEN i + 2 ELSE i + 1
        b == IF \E sfx \in {"th", "st", "nd", "rd"} : At(lt, a, sfx) THEN a + 2 ELSE a
        c == RunEnd(t, b, Space)
        w == RunEnd(t, c, Word)
        y == RunEnd(t, w, Space)
        nl == RunEnd(t, y + 4, {Ch(t, j) : j \in 1..Len(t)} \ {"\n"})
        ks == {k \in (y + 4)..nl : TimeEnd(t, lt, k) > 0}
        k == Min(ks)
    IN IF /\ AllIn(t, i, 1, Digit)
          /\ c > b /\ w > c /\ y > w
          /\ AllIn(t, y, 4, Digit)
          /\ ks # {}
       THEN Match(i, TimeEnd(t, lt, k),
                  <<SubSeq(t, i, y + 3), SubSeq(t, k, TimeEnd(t, lt, k) - 1)>>)
       ELSE None

extract_datetime(text) ==
    LET lt == lower(text)
        m == search([i \in 1..Len(text) |-> datetime_at(text, lt, i)])
    IN IF m.ok THEN group(m, 1) \o ", " \o group(m, 2) ELSE ""

\* near\s+([A-Za-z\s]+culvert)   (re.I)
\* both \s+ and the class are greedy: the group runs to the last "culvert" of
\* the run of letters and spaces, and \s+ gives one space back when "culvert"
\* follows the spaces directly
place_at(t, lt, i) ==
    LET p == i + Len("near")
        wmax == RunEnd(t, p, Space)
        r == RunEnd(t, wmax, AlphaSpace)
        xs == {x \in (p + 2)..(r - Len("culvert")) : At(lt, x, "culvert")}
        x == Max(xs)
        w == IF x > wmax THEN wmax ELSE x - 1
    IN IF At(lt, i, "near") /\ wmax > p /\ xs # {}
       THEN Match(i, x + Len("culvert"), <<SubSeq(t, w, x + Len("culvert") - 1)>>)
       ELSE None

\* faulty variant: m.group(1).strip() without the test of m
extract_place_unguarded(text) ==
    LET lt == lower(text)
        m == search([i \in 1..Len(text) |-> place_at(text, lt, i)])
    IN strip(group(m, 1))

extract_place(text) ==
    LET lt == lower(text)
        m == search([i \in 1..Len(text) |-> place_at(text, lt, i)])
    IN IF m.ok THEN strip(group(m, 1)) ELSE "Not mentioned"

-----------------------------------------------------------------------------
(* Legal mapper and record assembler                                       *)

BNS == "BNS 2023"
SCST == "SC/ST Act 1989"
ARMS == "Arms Act 1959"

Sec309 == "Sec. 309 - Robbery"
Sec115 == "Sec. 115 - Hurt"
Sec351 == "Sec. 351 - Criminal intimidation"
Sec3_1_r == "Sec. 3(1)(r) - Intentional insult/abuse by caste name"
Sec3_2_v == "Sec. 3(2)(v) - Offence committed on ground of caste"
Sec25 == "Sec. 25 - Possession/use of illegal arms"
Sec27 == "Sec. 27 - Use of firearm in commission of offence"

\* faulty variant: the BNS rules chained with elif
map_legal_sections_elif(info) ==
    LET offences == IF "Offences" \in DOMAIN info THEN info["Offences"] ELSE <<>>
        bns == IF InList("Robbery", offences) THEN <<Sec309>>
               ELSE IF InList("Assault causing injury", offences) THEN <<Sec115>>
               ELSE IF \E n \in 1..Len(offences) : Contains(offences[n], "Threat")
               THEN <<Sec351>> ELSE <<>>
        scst == IF InList("Caste abuse", offences) THEN <<Sec3_1_r, Sec3_2_v>> ELSE <<>>
        arms == IF Contains(join(offences), "firearm") \/ Contains(join(offences), "pistol")
                THEN <<Sec25, Sec27>> ELSE <<>>
        mapping == << <<BNS, bns>>, <<SCST, scst>>, <<ARMS, arms>> >>
        nonEmpty(kv) == kv[2] # <<>>
    IN SelectSeq(mapping, nonEmpty)

\* faulty variant: the mapping returned without dropping the empty lists
map_legal_sections_unfiltered(info) ==
    LET offences == IF "Offences" \in DOMAIN info THEN info["Offences"] ELSE <<>>
        bns == (IF InList("Robbery", offences) THEN <<Sec309>> ELSE <<>>)
               \o (IF InList("Assault causing injury", offences) THEN <<Sec115>> ELSE <<>>)
               \o (IF \E n \in 1..Len(offences) : Contains(offences[n], "Threat")
                   THEN <<Sec351>> ELSE <<>>)
        scst == IF InList("Caste abuse", offences) THEN <<Sec3_1_r, Sec3_2_v>> ELSE <<>>
        arms == IF Contains(join(offences), "firearm") \/ Contains(join(offences), "pistol")
                THEN <<Sec25, Sec27>> ELSE <<>>
    IN << <<BNS, bns>>, <<SCST, scst>>, <<ARMS, arms>> >>

\* A dict is the sequence of its <<key, value>> items in insertion order.
map_legal_sections(info) ==
    LET offences == IF "Offences" \in DOMAIN info THEN info["Offences"] ELSE <<>>
        bns == (IF InList("Robbery", offences) THEN <<Sec309>> ELSE <<>>)
               \o (IF InList("Assault causing injury", offences) THEN <<Sec115>> ELSE <<>>)
               \o (IF \E n \in 1..Len(offences) : Contains(offences[n], "Threat")
                   THEN <<Sec351>> ELSE <<>>)
        scst == IF InList("Caste abuse", offences) THEN <<Sec3_1_r, Sec3_2_v>> ELSE <<>>
        arms == IF Contains(join(offences), "firearm") \/ Contains(join(offences), "pistol")
                THEN <<Sec25, Sec27>> ELSE <<>>
        mapping == << <<BNS, bns>>, <<SCST, scst>>, <<ARMS, arms>> >>
        nonEmpty(kv) == kv[2] # <<>>
    IN SelectSeq(mapping, nonEmpty)

extract_all(text) ==
    LET data == [Complainant |-> extract_complainant_info(text),
                 DateTime |-> extract_datetime(text),
                 Place |-> extract_place(text),
                 Accused |-> extract_accused_info(text),
                 Vehicles |-> extract_vehicles(text),
                 WeaponsUsed |-> extract_weapons(text),
                 Offences |-> extract_offences(text),
                 PropertyLoss |-> extract_property_loss(text),
                 Threats |-> extract_threats(text),
                 Witnesses |-> extract_witnesses(text),
                 Impact |-> IF Contains(lower(text), "hospital")
                            THEN "Fear, public fled, complainant hospitalized" ELSE ""]
    IN ("LegalMapping" :> map_legal_sections(data)) @@ data

-----------------------------------------------------------------------------
(* Bounds and input sets                                                   *)

MaxChunks == 3      \* a text is the concatenation of at most MaxChunks chunks
MaxOffences == 4    \* longest Offences list handed to map_legal_sections
MaxProduced == 3    \* extractions performed by the sessions together

RECURSIVE Cat(_)
Cat(q) == IF q = <<>> THEN "" ELSE Head(q) \o Cat(Tail(q))

SeqsUpTo(S, n) == UNION {[1..k -> S] : k \in 0..n}
Texts(chunks) == {Cat(q) : q \in SeqsUpTo(chunks, MaxChunks)}

OffenceTags == {"Caste abuse", "Threat with firearm", "Robbery", "Assault causing injury"}
OffenceLists == SeqsUpTo(OffenceTags, MaxOffences)

ComplainantChunks ==
    {"complainant Ramesh", " aged 40", ", aged 40", " resident of Anantapur",
     ", resident of Anantapur", ".", " said"}

AccusedChunks ==
    {"unknown person", "Unknown man", " in a black shirt", " DARK", " fair",
     "\n", "Ravi, aged about 30", ". "}

OffenceChunks ==
    {"caste", "Mala", "PISTOL", "fire", "snatched", "cas", "h", "injury", "Bleeding", " "}

LegalChunks ==
    {"pistol", "PISTOL", "Fire", "fire", "caste", "cash", "injury", " and "}

\* chunks that match no pattern, alone or concatenated
PatternFreeChunks ==
    {" ", "The man went home.\n", "near culvert.", "AP-02-AB-123.", "12 March 2024;",
     "complainant 4"}
DefaultsChunks ==
    PatternFreeChunks \cup {"near the culvert", "aged 40", "AP-02-AB-1234", " 9:30 PM"}

\* texts the sessions paste or upload
Blank == {"", " \n"}
NonBlank == {"Fire", "cash $5"}
Sessions == {"s1", "s2"}

-----------------------------------------------------------------------------
(* The extraction functions applied to one argument                        *)

InitUI ==
    /\ widget = [s \in Sessions |-> ""]
    /\ fir_text = [s \in Sessions |-> ""]
    /\ result = [s \in Sessions |-> <<>>]
    /\ pc = [s \in Sessions |-> "idle"]
    /\ save_data = [s \in Sessions |-> <<>>]
    /\ all_data = [s \in Sessions |-> <<>>]
    /\ message = [s \in Sessions |-> ""]
    /\ file = [st |-> "absent", recs |-> <<>>]
    /\ log = <<>>

InitPure(args) ==
    /\ arg \in args
    /\ ret = <<>>
    /\ called = FALSE
    /\ InitUI

Return(value) ==
    /\ ~called
    /\ ret' = value
    /\ called' = TRUE
    /\ UNCHANGED <<arg, uiVars>>

CallMap == Return(map_legal_sections([Offences |-> arg]))
CallComplainant == Return(extract_complainant_info(arg))
CallAccused == Return(extract_accused_info(arg))
CallOffences == Return(extract_offences(arg))
CallAll == Return(extract_all(arg))

SpecMap == InitPure(OffenceLists) /\ [][CallMap]_vars
SpecComplainant == InitPure(Texts(ComplainantChunks)) /\ [][CallComplainant]_vars
SpecAccused == InitPure(Texts(AccusedChunks)) /\ [][CallAccused]_vars
SpecOffences == InitPure(Texts(OffenceChunks)) /\ [][CallOffences]_vars
SpecLegal == InitPure(Texts(LegalChunks)) /\ [][CallAll]_vars
SpecDefaults == InitPure(Texts(DefaultsChunks)) /\ [][CallAll]_vars

-----------------------------------------------------------------------------
(* The Streamlit sessions and the accumulation file                        *)
(* st.session_state.result is <<>> for None and <<record>> otherwise.      *)
(* file.st is "absent" (no file), "json" (a list of records, file.recs),   *)
(* "empty" (opened for writing, nothing written yet) or "garbage".         *)

Init ==
    /\ arg = ""
    /\ ret = <<>>
    /\ called = FALSE
    /\ InitUI

\* the user edits the text area or uploads a file; the script reruns
EditText(s) ==
    /\ pc[s] = "idle"
    /\ \E t \in Blank \cup NonBlank : widget' = [widget EXCEPT ![s] = t]
    /\ message' = [message EXCEPT ![s] = ""]
    /\ UNCHANGED <<fir_text, result, pc, save_data, all_data, file, log, pureVars>>

\* "Extract Information" with blank text: only the warning
ExtractBlank(s) ==
    /\ pc[s] = "idle"
    /\ strip(widget[s]) = ""
    /\ message' = [message EXCEPT ![s] = "warning"]
    /\ UNCHANGED <<widget, fir_text, result, pc, save_data, all_data, file, log, pureVars>>

\* faulty variant: the handler without the test of fir_text.strip()
Extract_unchecked(s) ==
    /\ pc[s] = "idle"
    /\ Len(log) < MaxProduced
    /\ LET r == extract_all(widget[s])
       IN /\ result' = [result EXCEPT ![s] = <<r>>]
          /\ save_data' = [save_data EXCEPT ![s] = <<r>>]
          /\ log' = Append(log, [text |-> widget[s], rec |-> r])
    /\ fir_text' = [fir_text EXCEPT ![s] = widget[s]]
    /\ message' = [message EXCEPT ![s] = "success"]
    /\ pc' = [pc EXCEPT ![s] = "save"]
    /\ UNCHANGED <<widget, all_data, file, pureVars>>

\* "Extract Information" with text: extract_all, the session state, st.success;
\* save_extracted_data(result) is entered
Extract(s) ==
    /\ pc[s] = "idle"
    /\ strip(widget[s]) # ""
    /\ Len(log) < MaxProduced
    /\ LET r == extract_all(widget[s])
       IN /\ result' = [result EXCEPT ![s] = <<r>>]
          /\ save_data' = [save_data EXCEPT ![s] = <<r>>]
          /\ log' = Append(log, [text |-> widget[s], rec |-> r])
    /\ fir_text' = [fir_text EXCEPT ![s] = widget[s]]
    /\ message' = [message EXCEPT ![s] = "success"]
    /\ pc' = [pc EXCEPT ![s] = "save"]
    /\ UNCHANGED <<widget, all_data, file, pureVars>>

\* save_extracted_data: os.path.exists, open "r", json.load, all_data.append
SaveLoad(s) ==
    /\ pc[s] = "save"
    /\ file.st \in {"absent", "json"}
    /\ all_data' = [all_data EXCEPT ![s] = file.recs \o save_data[s]]
    /\ pc' = [pc EXCEPT ![s] = "open"]
    /\ UNCHANGED <<widget, fir_text, result, save_data, message, file, log, pureVars>>

\* json.load raises JSONDecodeError on a file that another session is writing;
\* the script run ends with the exception
SaveLoadError(s) ==
    /\ pc[s] = "save"
    /\ file.st \in {"empty", "garbage"}
    /\ pc' = [pc EXCEPT ![s] = "idle"]
    /\ save_data' = [save_data EXCEPT ![s] = <<>>]
    /\ message' = [message EXCEPT ![s] = "exception"]
    /\ UNCHANGED <<widget, fir_text, result, all_data, file, log, pureVars>>

\* open(filename, "w") truncates the file
SaveOpen(s) ==
    /\ pc[s] = "open"
    /\ file' = [st |-> "empty", recs |-> <<>>]
    /\ pc' = [pc EXCEPT ![s] = "dump"]
    /\ UNCHANGED <<widget, fir_text, result, save_data, all_data, message, log, pureVars>>

\* json.dump and the close of the file: the list is written at offset 0.  When
\* another session wrote after this one's truncation, a longer content leaves
\* its tail behind this one's.
SaveDump(s) ==
    /\ pc[s] = "dump"
    /\ \/ file' = [st |-> "json", recs |-> all_data[s]]
       \/ /\ file.st \in {"json", "garbage"}
          /\ file' = [st |-> "garbage", recs |-> <<>>]
    /\ pc' = [pc EXCEPT ![s] = "idle"]
    /\ save_data' = [save_data EXCEPT ![s] = <<>>]
    /\ all_data' = [all_data EXCEPT ![s] = <<>>]
    /\ UNCHANGED <<widget, fir_text, result, message, log, pureVars>>

\* "New Extraction": st.session_state.clear(), st.rerun(), the initialisation
NewExtraction(s) ==
    /\ pc[s] = "idle"
    /\ fir_text' = [fir_text EXCEPT ![s] = ""]
    /\ result' = [result EXCEPT ![s] = <<>>]
    /\ widget' = [widget EXCEPT ![s] = ""]
    /\ message' = [message EXCEPT ![s] = ""]
    /\ UNCHANGED <<pc, save_data, all_data, file, log, pureVars>>

Next ==
    \E s \in Sessions :
        \/ EditText(s)
        \/ ExtractBlank(s)
        \/ Extract(s)
        \/ SaveLoad(s)
        \/ SaveLoadError(s)
        \/ SaveOpen(s)
        \/ SaveDump(s)
        \/ NewExtraction(s)

Spec == Init /\ [][Next]_vars

-----------------------------------------------------------------------------
(* Vocabulary of the properties.  Keyword presence is restated character   *)
(* by character, independently of lower and Contains.                      *)

Fold(c) == IF c \in Upper THEN LowerOf[c] ELSE c

\* kw occurs in t at position i, letter case ignored
OccursAt(t, i, kw) ==
    /\ i + Len(kw) - 1 <= Len(t)
    /\ \A j \in 1..Len(kw) : Fold(Ch(t, i + j - 1)) = Ch(kw, j)

Occurrences(t, kw) == {i \in 1..Len(t) : OccursAt(t, i, kw)}
Mentions(t, kw) == Occurrences(t, kw) # {}

\* the value of key k in a dict given as a sequence of items, <<>> if absent
Lookup(items, k) ==
    LET at == {i \in 1..Len(items) : items[i][1] = k}
    IN IF at = {} THEN <<>> ELSE items[Min(at)][2]

Keys(items) == [i \in 1..Len(items) |-> items[i][1]]

When(cond, xs) == IF cond THEN xs ELSE <<>>

\* xs is strictly increasing for the order in which the elements occur in ys
InOrderOf(xs, ys) ==
    /\ \A i \in 1..Len(xs) : InList(xs[i], ys)
    /\ \A i, j \in 1..Len(xs) :
          i < j => Min({n \in 1..Len(ys) : ys[n] = xs[i]}) < Min({n \in 1..Len(ys) : ys[n] = xs[j]})

CodeOrder == <<BNS, SCST, ARMS>>
TagOrder == <<"Caste abuse", "Threat with firearm", "Robbery", "Assault causing injury">>

-----------------------------------------------------------------------------
(* C1: for every Offences list over the four tags, map_legal_sections      *)
(* returns the rule table's result: BNS 2023 holds Sec. 309 iff Robbery,   *)
(* Sec. 115 iff Assault causing injury, Sec. 351 iff a Threat tag, in that *)
(* order; SC/ST Act holds Sec. 3(1)(r), 3(2)(v) iff Caste abuse; Arms Act  *)
(* holds Sec. 25, 27 iff the firearm tag; rules are independent; nothing   *)
(* else and no duplicate is emitted.                                       *)
C1_RuleTable ==
    called =>
        /\ Lookup(ret, BNS) = When(InList("Robbery", arg), <<Sec309>>)
                              \o When(InList("Assault causing injury", arg), <<Sec115>>)
                              \o When(InList("Threat with firearm", arg), <<Sec351>>)
        /\ Lookup(ret, SCST) = When(InList("Caste abuse", arg), <<Sec3_1_r, Sec3_2_v>>)
        /\ Lookup(ret, ARMS) = When(InList("Threat with firearm", arg), <<Sec25, Sec27>>)
        /\ \A i \in 1..Len(ret) : InList(ret[i][1], CodeOrder)
        /\ \A i, j \in 1..Len(ret) : i # j => ret[i][1] # ret[j][1]

C1_Witness ==
    /\ called
    /\ arg = <<"Assault causing injury", "Threat with firearm", "Caste abuse", "Robbery">>
    /\ Len(ret) = 3
    /\ Lookup(ret, BNS) = <<Sec309, Sec115, Sec351>>

(* C2: in every record of extract_all the keys of LegalMapping are among   *)
(* the three codes, in the fixed order, and a key is present iff its list  *)
(* of citations is non-empty.                                              *)
C2_MappingKeys ==
    called =>
        LET lm == ret.LegalMapping
            off == ret.Offences
        IN /\ InOrderOf(Keys(lm), CodeOrder)
           /\ \A i \in 1..Len(lm) : lm[i][2] # <<>>
           /\ InList(BNS, Keys(lm)) <=> \/ InList("Robbery", off)
                                        \/ InList("Assault causing injury", off)
                                        \/ InList("Threat with firearm", off)
           /\ InList(SCST, Keys(lm)) <=> InList("Caste abuse", off)
           /\ InList(ARMS, Keys(lm)) <=> InList("Threat with firearm", off)

C2_Witness ==
    /\ called
    /\ Keys(ret.LegalMapping) = <<BNS, ARMS>>
    /\ ~InList("Caste abuse", ret.Offences)

(* C3: for every text extract_all returns a record with all twelve fields  *)
(* and raises nothing; when no pattern matches every field has its         *)
(* default.                                                                *)
RecordFields ==
    {"Complainant", "DateTime", "Place", "Accused", "Vehicles", "WeaponsUsed", "Offences",
     "PropertyLoss", "Threats", "Witnesses", "Impact", "LegalMapping"}

DefaultRecord ==
    [Complainant |-> <<>>, DateTime |-> "", Place |-> "Not mentioned", Accused |-> <<>>,
     Vehicles |-> <<>>, WeaponsUsed |-> <<>>, Offences |-> <<>>, PropertyLoss |-> <<>>,
     Threats |-> <<>>, Witnesses |-> <<>>, Impact |-> "", LegalMapping |-> <<>>]

PatternFreeTexts == Texts(PatternFreeChunks)

Scenario1(t) ==
    /\ \E i \in Occurrences(t, "complainant ramesh") :
         \E j \in Occurrences(t, "aged 40") :
           \E k \in Occurrences(t, "resident of anantapur") : i < j /\ j < k
    /\ Cardinality(Occurrences(t, "complainant")) = 1
    /\ Cardinality(Occurrences(t, "aged")) = 1
    /\ Cardinality(Occurrences(t, "resident")) = 1
    /\ \A cue \in {"s/o", "occupation", "scheduled", "backward"} : ~Mentions(t, cue)

C4_Scenario1 ==
    (called /\ Scenario1(arg)) =>
        /\ DOMAIN ret = {"Name", "Age", "Address"}
        /\ ret["Name"] = "Ramesh"
        /\ ret["Age"] = 40
        /\ ret["Address"] = "Anantapur"

(* C5: extract_accused_info appends the sentinel {Name: "Unknown",         *)
(* Description: d} iff the text contains "unknown" in any case; there is   *)
(* at most one and it is last; d is a cue of the closed set that follows   *)
(* the unknown reference, and the fallback only when no cue follows it.    *)
CueSet == {DescriptionCues[n] : n \in 1..Len(DescriptionCues)}

C5_Sentinel ==
    called =>
        LET sent == {k \in 1..Len(ret) : "Description" \in DOMAIN ret[k]}
            u == Min(Occurrences(arg, "unknown"))
            following == {c \in CueSet : \E i \in Occurrences(arg, c) : i > u}
        IN /\ Mentions(arg, "unknown") <=> sent # {}
           /\ Cardinality(sent) <= 1
           /\ \A k \in sent :
                /\ k = Len(ret)
                /\ ret[k]["Name"] = "Unknown"
                /\ \/ lower(ret[k]["Description"]) \in following
                   \/ /\ ret[k]["Description"] = "Unknown description"
                      /\ following = {}

(* C6: Offences holds "Caste abuse" iff the text contains "caste" or       *)
(* "mala", "Threat with firearm" iff "pistol" or "fire", "Robbery" iff     *)
(* "snatched" or "cash", "Assault causing injury" iff "injury" or          *)
(* "bleeding" (substring, any case); the tags are in that fixed order,     *)
(* each at most once, and nothing else is in the list.                     *)
C6_Offences ==
    called =>
        /\ InList("Caste abuse", ret) <=> Mentions(arg, "caste") \/ Mentions(arg, "mala")
        /\ InList("Threat with firearm", ret) <=> Mentions(arg, "pistol") \/ Mentions(arg, "fire")
        /\ InList("Robbery", ret) <=> Mentions(arg, "snatched") \/ Mentions(arg, "cash")
        /\ InList("Assault causing injury", ret)
              <=> Mentions(arg, "injury") \/ Mentions(arg, "bleeding")
        /\ InOrderOf(ret, TagOrder)
        /\ \A i, j \in 1..Len(ret) : i # j => ret[i] # ret[j]

C6_Witness ==
    /\ called
    /\ arg = "BleedingPISTOLMala"
    /\ ret = <<"Caste abuse", "Threat with firearm", "Assault causing injury">>

(* C7: a text that contains both "pistol" and "fire" (any case, any place) *)
(* gives "Threat with firearm" in Offences, "Country-made pistol" in       *)
(* WeaponsUsed and both Sec. 25 and Sec. 27 under Arms Act 1959.           *)
C7_PistolAndFire ==
    (called /\ Mentions(arg, "pistol") /\ Mentions(arg, "fire")) =>
        /\ InList("Threat with firearm", ret.Offences)
        /\ InList("Country-made pistol", ret.WeaponsUsed)
        /\ InList(Sec25, Lookup(ret.LegalMapping, ARMS))
        /\ InList(Sec27, Lookup(ret.LegalMapping, ARMS))

C7_Witness ==
    /\ called
    /\ arg = "FirePISTOL"
    /\ ret.WeaponsUsed = <<"Country-made pistol">>
    /\ Lookup(ret.LegalMapping, ARMS) = <<Sec25, Sec27>>

C9_AllRecordsStored ==
    (\A s \in Sessions : pc[s] = "idle") =>
        /\ file.st \in {"absent", "json"}
        /\ file.recs = [i \in 1..Len(log) |-> log[i].rec]

(* C10: a press of "Extract Information" with blank text calls neither     *)
(* extract_all nor save_extracted_data and changes nothing but the         *)
(* warning.  As stated: the stored result and the list change only on a    *)
(* press with non-blank text, and then the stored record is the one        *)
(* appended.                                                               *)
BlankPress(s) == pc[s] = "idle" /\ strip(widget[s]) = "" /\ message[s] # "warning"
                 /\ message'[s] = "warning"
NonBlankPress(s) == pc[s] = "idle" /\ strip(widget[s]) # "" /\ pc'[s] = "save"

BlankPressChangesNothing ==
    \A s \in Sessions :
        BlankPress(s) => UNCHANGED <<result, fir_text, file, log, pc, save_data, all_data>>

NewExtractionPress(s) ==
    /\ pc[s] = "idle" /\ pc'[s] = "idle"
    /\ result'[s] = <<>> /\ fir_text'[s] = "" /\ widget'[s] = ""
    /\ file' = file /\ log' = log

====
